---- MODULE Spec2Model ----
(***************************************************************************)
(* Model of data-munging/spd_2020_salary_data.py: the 2020 salary import   *)
(* that joins a salary extract against the officer roster by name.         *)
(*                                                                         *)
(* Strings are sequences of one-character strings.  A missing cell (the    *)
(* NaN pandas puts where a value is absent) is the one-element sequence    *)
(* NaN, which no character sequence equals.  A float is <<"float", w, f>>  *)
(* with w the whole part and f the fractional digits without trailing      *)
(* zeros; the float NaN is NaNf.                                           *)
(***************************************************************************)
EXTENDS Integers, Sequences, FiniteSets, TLC

VARIABLES pc, id_file, data_file, df, ids, merged, missing, writes, reads

vars == <<pc, id_file, data_file, df, ids, merged, missing, writes, reads>>

\* ------------------------------------------------------------------ bounds
MaxRows == 2
MaxRoster == 2
MaxNameLen == 4
MaxPayLen == 2

\* ----------------------------------------------------------------- strings
NaN == <<"NaN">>
NaNf == <<"nan", 0, <<>>>>
NA == 0
None == "None"

IsStr(v) == v # NaN

RECURSIVE StrsUpTo(_, _)
StrsUpTo(alphabet, n) ==
  IF n = 0 THEN {<<>>}
  ELSE LET shorter == StrsUpTo(alphabet, n - 1)
       IN shorter \cup {Append(s, c) : s \in shorter, c \in alphabet}

\* Does the literal tok occur in s starting at position i?
HasAt(s, i, tok) ==
  /\ i + Len(tok) - 1 <= Len(s)
  /\ \A k \in 1..Len(tok) : s[i + k - 1] = tok[k]

\* Position of the first occurrence of character c in s, 0 when absent.
RECURSIVE FindFrom(_, _, _)
FindFrom(s, c, i) ==
  IF i > Len(s) THEN 0
  ELSE IF s[i] = c THEN i
  ELSE FindFrom(s, c, i + 1)

Find(s, c) == FindFrom(s, c, 1)

\* Remove every character of the set cs from s: re.sub("[cs]", "", s).
RemoveChars(s, cs) == SelectSeq(s, LAMBDA c : c \notin cs)

\* Is tok a contiguous substring of s?
Contains(s, tok) == \E i \in 1..Len(s) : HasAt(s, i, tok)

\* ------------------------------------------------- suffix removal, line 23
\* The alternation ((Jr)|(II)|(III)|(IV)) tried in order at position i:
\* the length of the first alternative that matches, 0 when none does.
TokenLenAt(s, i) ==
  IF HasAt(s, i, <<"J", "r">>) THEN 2
  ELSE IF HasAt(s, i, <<"I", "I">>) THEN 2
  ELSE IF HasAt(s, i, <<"I", "I", "I">>) THEN 3
  ELSE IF HasAt(s, i, <<"I", "V">>) THEN 2
  ELSE 0

\* Length of the match of  ?((Jr)|(II)|(III)|(IV))\.?  anchored at i, 0 when
\* the pattern does not match there.  The optional space and the optional
\* period are greedy; what follows the token always matches, so the first
\* alternative that matches is the one taken.
MatchLenAt(s, i) ==
  LET sp == IF i <= Len(s) /\ s[i] = " " THEN 1 ELSE 0
      t == TokenLenAt(s, i + sp)
      dot == IF t > 0 /\ i + sp + t <= Len(s) /\ s[i + sp + t] = "." THEN 1 ELSE 0
  IN IF t = 0 THEN 0 ELSE sp + t + dot

\* One left-to-right pass replacing the non-overlapping matches by "".
RECURSIVE SubFrom(_, _)
SubFrom(s, i) ==
  IF i > Len(s) THEN <<>>
  ELSE LET m == MatchLenAt(s, i)
       IN IF m > 0 THEN SubFrom(s, i + m)
          ELSE <<s[i]>> \o SubFrom(s, i + 1)

RemoveSuffix(name) == IF IsStr(name) THEN SubFrom(name, 1) ELSE name

\* ------------------------------------------------- name split, lines 25-28
\* s.split(sep)[0]: the text before the first sep, all of s when absent.
SplitFirst(s, sep) ==
  IF ~IsStr(s) THEN NaN
  ELSE LET p == Find(s, sep)
       IN IF p = 0 THEN s ELSE SubSeq(s, 1, p - 1)

\* s.split(sep)[1]: the text between the first and the second sep; a
\* missing value when s has no sep.
SplitSecond(s, sep) ==
  IF ~IsStr(s) THEN NaN
  ELSE LET p == Find(s, sep)
       IN IF p = 0 THEN NaN
          ELSE SplitFirst(SubSeq(s, p + 1, Len(s)), sep)

LastOf(cleaned) == SplitFirst(cleaned, ",")

FirstOf(cleaned) == SplitFirst(SplitSecond(cleaned, ","), " ")

\* The name normalizer: Name -> [Name (cleaned), first, last].
Normalize(name) ==
  LET cleaned == RemoveSuffix(name)
  IN [Name |-> cleaned, first |-> FirstOf(cleaned), last |-> LastOf(cleaned)]

\* --------------------------------------------- currency parsing, 49-60
Digits == {"0", "1", "2", "3", "4", "5", "6", "7", "8", "9"}

DigitVal(c) ==
  CASE c = "0" -> 0 [] c = "1" -> 1 [] c = "2" -> 2 [] c = "3" -> 3
    [] c = "4" -> 4 [] c = "5" -> 5 [] c = "6" -> 6 [] c = "7" -> 7
    [] c = "8" -> 8 [] c = "9" -> 9

RECURSIVE LStrip(_)
LStrip(s) == IF s # <<>> /\ Head(s) = " " THEN LStrip(Tail(s)) ELSE s

RECURSIVE RStrip(_)
RStrip(s) ==
  IF s # <<>> /\ s[Len(s)] = " " THEN RStrip(SubSeq(s, 1, Len(s) - 1)) ELSE s

RECURSIVE RStripZeros(_)
RStripZeros(s) ==
  IF s # <<>> /\ s[Len(s)] = "0" THEN RStripZeros(SubSeq(s, 1, Len(s) - 1))
  ELSE s

RECURSIVE DecVal(_)
DecVal(s) ==
  IF s = <<>> THEN 0
  ELSE 10 * DecVal(SubSeq(s, 1, Len(s) - 1)) + DigitVal(s[Len(s)])

AllDigits(s) == \A k \in 1..Len(s) : s[k] \in Digits

\* float(s) accepts, after trimming blanks, digits with at most one period
\* and at least one digit.  (Signs, exponents, "inf" and "nan" need
\* characters outside the alphabets the cells are drawn from.)
IsNumeric(s) ==
  LET t == RStrip(LStrip(s))
      p == Find(t, ".")
      w == IF p = 0 THEN t ELSE SubSeq(t, 1, p - 1)
      f == IF p = 0 THEN <<>> ELSE SubSeq(t, p + 1, Len(t))
  IN AllDigits(w) /\ AllDigits(f) /\ Len(w) + Len(f) > 0

ParseFloat(s) ==
  LET t == RStrip(LStrip(s))
      p == Find(t, ".")
      w == IF p = 0 THEN t ELSE SubSeq(t, 1, p - 1)
      f == IF p = 0 THEN <<>> ELSE SubSeq(t, p + 1, Len(t))
  IN <<"float", DecVal(w), RStripZeros(f)>>

\* Series.replace(r"[\$,]", "", regex=True): strings only, NaN untouched.
StripSalary(v) == IF IsStr(v) THEN RemoveChars(v, {"$", ","}) ELSE v

\* Overtime stripped without the replacement of "" by NaN.
StripOvertime_KeepEmpty(v) ==
  IF IsStr(v) THEN RemoveChars(v, {"$", ",", " "}) ELSE v

\* .replace(r"[\$, ]", "", regex=True).replace("", np.nan)
StripOvertime(v) ==
  LET s == IF IsStr(v) THEN RemoveChars(v, {"$", ",", " "}) ELSE v
  IN IF s = <<>> THEN NaN ELSE s

\* astype(float) on one cell: raises on a string that is not numeric.
FloatRaises(v) == IsStr(v) /\ ~IsNumeric(v)

AsFloat(v) == IF IsStr(v) THEN ParseFloat(v) ELSE NaNf

\* ------------------------------------------------------------- the tables
\* A CSV file is [exists, header, rows]: header is the sequence of column
\* names in file order and each row maps a column name to its cell.
usecols_data == {"Name", "Base Pay", "Overtime"}

usecols_ids == {"id", "first name", "last name"}

HeaderSet(file) == {file.header[k] : k \in 1..Len(file.header)}

\* pd.read_csv(path, usecols=cols): raises unless every name of cols is a
\* column of the file; the table keeps the file's column order.
ReadCsvRaises(file, cols) == ~(cols \subseteq HeaderSet(file))

read_csv(file, cols) ==
  [columns |-> SelectSeq(file.header, LAMBDA c : c \in cols),
   rows |-> file.rows]

\* ids.columns = ["id", "last", "first"], line 21: the columns are renamed
\* by position.
RenameIds(t) ==
  [k \in 1..Len(t.rows) |->
     [id |-> t.rows[k][t.columns[1]],
      last |-> t.rows[k][t.columns[2]],
      first |-> t.rows[k][t.columns[3]]]]

\* Lines 23-28 on one salary row.
NormalizeRow(r) ==
  LET n == Normalize(r.Name)
  IN [Name |-> n.Name, Base_Pay |-> r.Base_Pay, Overtime |-> r.Overtime,
      first |-> n.first, last |-> n.last]

\* ------------------------------------------------------- merge, lines 30-34
\* A join on the last name alone.
KeyMatch_LastOnly(row, r) == r.last = row.last

\* on=["last", "first"]: both keys equal, jointly.
KeyMatch(row, r) == r.last = row.last /\ r.first = row.first

Matches(row, roster) == SelectSeq(roster, LAMBDA r : KeyMatch(row, r))

\* The joined rows of salary row number i.  src is a history field, not a
\* column: the position of the salary row the record was joined from.
JoinRow(row, i, roster) ==
  LET m == Matches(row, roster)
      out(id) == [Name |-> row.Name, Base_Pay |-> row.Base_Pay,
                  Overtime |-> row.Overtime, first |-> row.first,
                  last |-> row.last, id |-> id, src |-> i]
  IN IF m = <<>> THEN <<out(NA)>>
     ELSE [k \in 1..Len(m) |-> out(m[k].id)]

RECURSIVE LeftMergeFrom(_, _, _)
LeftMergeFrom(rows, i, roster) ==
  IF i > Len(rows) THEN <<>>
  ELSE JoinRow(rows[i], i, roster) \o LeftMergeFrom(rows, i + 1, roster)

LeftMerge(rows, roster) == LeftMergeFrom(rows, 1, roster)

\* ---------------------------------------------------- partition, 36-48
\* The partition mask taken the wrong way round.
_has_id_inverted(row) == row.id = NA

_has_id(row) == row.id # NA

Year == 2020

\* Lines 40-46: reduce, rename, add the empty id and the year.
Reshape(row) ==
  [salary |-> row.Base_Pay, overtime_pay |-> row.Overtime,
   officer_id |-> row.id, id |-> None, year |-> Year, src |-> row.src]

\* The missing rows with those whose Base Pay does not parse skipped.
MissingOf_SkipUnparsed(joined) ==
  SelectSeq(joined, LAMBDA row : /\ ~_has_id(row)
                               /\ ~FloatRaises(StripSalary(row.Base_Pay)))

MissingOf(joined) == SelectSeq(joined, LAMBDA row : ~_has_id(row))

MatchedOf(joined) ==
  LET kept == SelectSeq(joined, _has_id)
      shaped == [k \in 1..Len(kept) |-> Reshape(kept[k])]
  IN SelectSeq(shaped, LAMBDA m : m.officer_id # NA)

\* Lines 49-60 on the matched table: does a conversion raise, and the table
\* after both conversions.
ParseRaises(matched) ==
  \E k \in 1..Len(matched) :
    \/ FloatRaises(StripSalary(matched[k].salary))
    \/ FloatRaises(StripOvertime(matched[k].overtime_pay))

ParseRow(m) ==
  [m EXCEPT !.salary = AsFloat(StripSalary(m.salary)),
            !.overtime_pay = AsFloat(StripOvertime(m.overtime_pay))]

ParseCurrency(matched) == [k \in 1..Len(matched) |-> ParseRow(matched[k])]

\* ------------------------------------------------------------- the actions
\* The command without exists=True on its path arguments.
PathsExist_Unchecked == TRUE

PathsExist == id_file.exists /\ data_file.exists

\* cli, lines 75-84: click checks that both input paths exist before the
\* body runs; a missing path ends the run with a usage error.
cli ==
  /\ pc = "cli"
  /\ pc' = IF PathsExist THEN "main" ELSE "usage_error"
  /\ UNCHANGED <<id_file, data_file, df, ids, merged, missing, writes, reads>>

\* main, line 66: load the salary extract.
ReadData ==
  /\ pc = "main"
  /\ reads' = reads + 1
  /\ IF ~data_file.exists THEN pc' = "file_not_found" /\ df' = df
     ELSE IF ReadCsvRaises(data_file, usecols_data)
          THEN pc' = "missing_column" /\ df' = df
          ELSE pc' = "read_ids" /\ df' = read_csv(data_file, usecols_data).rows
  /\ UNCHANGED <<id_file, data_file, ids, merged, missing, writes>>

\* main, lines 67-70: load the roster.
ReadIds ==
  /\ pc = "read_ids"
  /\ reads' = reads + 1
  /\ IF ~id_file.exists THEN pc' = "file_not_found" /\ ids' = ids
     ELSE IF ReadCsvRaises(id_file, usecols_ids)
          THEN pc' = "missing_column" /\ ids' = ids
          ELSE pc' = "match" /\ ids' = read_csv(id_file, usecols_ids)
  /\ UNCHANGED <<id_file, data_file, df, merged, missing, writes>>

\* main, line 71: match_salary_data(ids, df), lines 14-61.  Both arguments
\* are changed in place before anything can raise.
match_salary_data ==
  /\ pc = "match"
  /\ LET roster == RenameIds(ids)
         rows == [k \in 1..Len(df) |-> NormalizeRow(df[k])]
         joined == LeftMerge(rows, roster)
         matched == MatchedOf(joined)
     IN /\ ids' = roster
        /\ df' = rows
        /\ IF ParseRaises(matched)
           THEN pc' = "parse_error" /\ UNCHANGED <<merged, missing>>
           ELSE /\ pc' = "write"
                /\ merged' = ParseCurrency(matched)
                /\ missing' = MissingOf(joined)
  /\ UNCHANGED <<id_file, data_file, writes, reads>>

\* main, line 72: hand both tables to common.write_files_with_missing.
write_files_with_missing ==
  /\ pc = "write"
  /\ writes' = Append(writes, [merged |-> merged, missing |-> missing])
  /\ pc' = "done"
  /\ UNCHANGED <<id_file, data_file, df, ids, merged, missing, reads>>

Next ==
  \/ cli
  \/ ReadData
  \/ ReadIds
  \/ match_salary_data
  \/ write_files_with_missing

\* ------------------------------------------------------------ the inputs
Smith == <<"S", "m", "i", "t", "h">>
John == <<"J", "o", "h", "n">>
Jane == <<"J", "a", "n", "e">>
Doe == <<"D", "o", "e">>

\* "Smith, John A. Jr.", the documented form of a Name.
SmithJohnAJr == Smith \o <<",", " ">> \o John \o <<" ", "A", ".", " ", "J", "r", ".">>

\* "Smith,John A", a Name without a space after the comma.
SmithJohnA == Smith \o <<",">> \o John \o <<" ", "A">>

\* "Doe,Jane"
DoeJane == Doe \o <<",">> \o Jane

\* "$50,000.00", "$1,234", "x"
Pay50000 == <<"$", "5", "0", ",", "0", "0", "0", ".", "0", "0">>
Pay1234 == <<"$", "1", ",", "2", "3", "4">>
PayBad == <<"x">>

IdRow(id, first, last) ==
  [c \in usecols_ids |->
     IF c = "id" THEN id ELSE IF c = "first name" THEN first ELSE last]

SalaryRow(name, pay, overtime) ==
  [Name |-> name, Base_Pay |-> pay, Overtime |-> overtime]

SeqsUpTo(S, n) == UNION {[1..k -> S] : k \in 0..n}

Distinct(s) == \A i, j \in 1..Len(s) : i # j => s[i] # s[j]

\* Identity files list id first; the two name columns come in either order,
\* or one of them is absent.
HeaderLastFirst == <<"id", "last name", "first name">>
HeaderFirstLast == <<"id", "first name", "last name">>
IdHeaders == {HeaderLastFirst, HeaderFirstLast, <<"id", "last name">>}

DataHeaders == {<<"Name", "Base Pay", "Overtime">>, <<"Name", "Base Pay">>}

InitWith(idExists, idHeaders, rosters, dataExists, dataHeaders, rowSeqs) ==
  /\ pc = "cli"
  /\ id_file \in [exists : idExists, header : idHeaders, rows : rosters]
  /\ data_file \in [exists : dataExists, header : dataHeaders, rows : rowSeqs]
  /\ df = <<>>
  /\ ids = <<>>
  /\ merged = <<>>
  /\ missing = <<>>
  /\ writes = <<>>
  /\ reads = 0

\* The pipeline on whole files.
RosterPool ==
  {IdRow(7, John, Smith), IdRow(8, John, Smith), IdRow(9, Jane, Smith)}

NamePool == {SmithJohnAJr, SmithJohnA, DoeJane}

RowPool ==
  {SalaryRow(n, p, <<>>) : n \in NamePool, p \in {Pay50000, PayBad}}
    \cup {SalaryRow(n, Pay50000, o) : n \in NamePool, o \in {Pay1234, PayBad}}

Rosters == {r \in SeqsUpTo(RosterPool, MaxRoster) : Distinct(r)}

\* Files that load, with up to MaxRows salary rows, and every combination
\* of absent paths and absent columns with at most one salary row.
Init ==
  \/ InitWith({TRUE}, {HeaderLastFirst, HeaderFirstLast}, Rosters,
              {TRUE}, {<<"Name", "Base Pay", "Overtime">>},
              SeqsUpTo(RowPool, MaxRows))
  \/ InitWith(BOOLEAN, IdHeaders, Rosters,
              BOOLEAN, DataHeaders, SeqsUpTo(RowPool, 1))

Spec == Init /\ [][Next]_vars

\* The name normalizer on every Name over NameAlphabet.
NameAlphabet == {"J", "r", "I", "V", ".", " ", ",", "A"}

InitNorm ==
  InitWith({TRUE}, {HeaderLastFirst}, {<<IdRow(7, <<"A">>, <<"A">>)>>},
           BOOLEAN, {<<"Name", "Base Pay", "Overtime">>},
           {<<SalaryRow(n, <<"1">>, <<>>)>> :
              n \in StrsUpTo(NameAlphabet, MaxNameLen)})

SpecNorm == InitNorm /\ [][Next]_vars

\* The currency conversions on every cell over PayAlphabet, for a salary
\* row that matches the roster and for one that does not.
PayAlphabet == {"$", ",", " ", ".", "1", "x"}

PayCells == StrsUpTo(PayAlphabet, MaxPayLen) \cup {NaN}

InitCur ==
  InitWith({TRUE}, {HeaderLastFirst}, {<<IdRow(7, <<"A">>, <<"A">>)>>},
           BOOLEAN, {<<"Name", "Base Pay", "Overtime">>},
           {<<SalaryRow(n, p, o)>> :
              n \in {<<"A", ",", "A">>, <<"V", ",", "V">>},
              p \in PayCells, o \in PayCells})

SpecCur == InitCur /\ [][Next]_vars

\* ------------------------------------------------------------- the claims
\* match_salary_data has returned to main (line 71 completed).
Returned == pc \in {"write", "done"}

\* match_salary_data has run, whether it returned or raised.
Ran == pc \in {"write", "done", "parse_error"}

\* C1: with the roster {id 7, first "John", last "Smith"} and the single
\* salary row {"Smith, John A. Jr.", "$50,000.00", ""} the run returns one
\* matched record {salary 50000, overtime_pay null, officer_id 7, id null,
\* year 2020} and an empty missing set.  (Stated for the identity file
\* whose columns are in the order line 21 names them.)
C1_EndToEndMatch ==
  ( /\ Ran
    /\ id_file.header = HeaderLastFirst
    /\ id_file.rows = <<IdRow(7, John, Smith)>>
    /\ data_file.rows = <<SalaryRow(SmithJohnAJr, Pay50000, <<>>)>> )
  => /\ Returned
     /\ missing = <<>>
     /\ Len(merged) = 1
     /\ merged[1].salary = <<"float", 50000, <<>>>>
     /\ merged[1].overtime_pay = NaNf
     /\ merged[1].officer_id = 7
     /\ merged[1].id = None
     /\ merged[1].year = 2020

\* C2: a salary row with k roster entries equal to it on last and first
\* jointly yields one missing record and no matched record when k = 0, and
\* k matched records (one per matching roster id) and no missing record
\* when k >= 1; no salary row is dropped and none is in both outputs.
C2_JoinPartition ==
  Returned =>
    /\ Len(df) = Len(data_file.rows)
    /\ \A j \in 1..Len(merged) : merged[j].src \in 1..Len(df)
    /\ \A j \in 1..Len(missing) : missing[j].src \in 1..Len(df)
    /\ \A i \in 1..Len(df) :
         LET hits == {r \in 1..Len(ids) :
                        ids[r].last = df[i].last /\ ids[r].first = df[i].first}
             inMissing == {j \in 1..Len(missing) : missing[j].src = i}
             inMerged == {j \in 1..Len(merged) : merged[j].src = i}
         IN IF hits = {}
            THEN Cardinality(inMissing) = 1 /\ inMerged = {}
            ELSE /\ Cardinality(inMerged) = Cardinality(hits)
                 /\ {merged[j].officer_id : j \in inMerged}
                      = {ids[r].id : r \in hits}
                 /\ inMissing = {}

\* A run returned with one salary row fanned out over two roster entries
\* and another salary row without a roster entry.
C2_Witness ==
  /\ Returned
  /\ \E i \in 1..Len(df) :
       Cardinality({j \in 1..Len(merged) : merged[j].src = i}) = 2
  /\ \E i \in 1..Len(df) : \E j \in 1..Len(missing) : missing[j].src = i

\* C3: for a Name with a comma, the derived last name is the text before
\* the first comma of the cleaned Name with surrounding blanks trimmed, and
\* the derived first name is the first non-empty blank-delimited token of
\* the text after that comma.
C3_NormalizerResult ==
  Ran =>
    \A i \in 1..Len(df) :
      LET cleaned == df[i].Name
          p == Find(cleaned, ",")
          before == SubSeq(cleaned, 1, p - 1)
          after == LStrip(SubSeq(cleaned, p + 1, Len(cleaned)))
          sp == Find(after, " ")
          token == IF sp = 0 THEN after ELSE SubSeq(after, 1, sp - 1)
      IN p # 0 =>
           /\ df[i].last = RStrip(LStrip(before))
           /\ df[i].first = token

\* C4: the roster used for the join has first equal to the identity file's
\* `first name` and last equal to its `last name` for each id, in whatever
\* order the file lists its columns.
C4_RosterColumnMapping ==
  Ran =>
    /\ Len(ids) = Len(id_file.rows)
    /\ \A k \in 1..Len(ids) :
         /\ ids[k].id = id_file.rows[k]["id"]
         /\ ids[k].first = id_file.rows[k]["first name"]
         /\ ids[k].last = id_file.rows[k]["last name"]

\* C5: the derived last name never contains one of the suffix tokens Jr,
\* II, III, IV (with a trailing period or without).
C5_NoSuffixInLast ==
  Ran =>
    \A i \in 1..Len(df) :
      \A tok \in {<<"J", "r">>, <<"I", "I">>, <<"I", "I", "I">>, <<"I", "V">>} :
        ~Contains(df[i].last, tok)

\* C6: every matched record has a non-null officer_id, a null id and year
\* 2020, and every missing record has a null id.
C6_OutputInvariant ==
  Returned =>
    /\ \A j \in 1..Len(merged) :
         /\ merged[j].officer_id # NA
         /\ merged[j].id = None
         /\ merged[j].year = 2020
    /\ \A j \in 1..Len(missing) : missing[j].id = NA

\* A finished run that wrote a matched and a missing record.
C6_Witness ==
  /\ pc = "done"
  /\ Len(writes) = 1
  /\ writes[1].merged # <<>>
  /\ writes[1].missing # <<>>

\* C7: normalizing the Name reassembled as "last, first" from a normalized
\* (first, last) yields the same pair.
C7_NormalizerIdempotent ==
  Ran =>
    \A i \in 1..Len(df) :
      (IsStr(df[i].first) /\ IsStr(df[i].last)) =>
        LET again == Normalize(df[i].last \o <<",", " ">> \o df[i].first)
        IN again.first = df[i].first /\ again.last = df[i].last

\* C8: on matched rows salary is the number left of Base Pay once every $
\* and , is removed; overtime_pay is null when Overtime is empty once every
\* $, , and blank is removed and that number otherwise; an empty or blank
\* Overtime never raises, and a Base Pay whose residue is not numeric
\* (the empty string included) raises.
C8_CurrencyFormatting ==
  LET residue(v) == RemoveChars(v, {"$", ","})
      residueOt(v) == RemoveChars(v, {"$", ",", " "})
      matchedRows == {i \in 1..Len(df) :
                        \E r \in 1..Len(ids) :
                          ids[r].last = df[i].last /\ ids[r].first = df[i].first}
      badPay(i) == /\ IsStr(data_file.rows[i].Base_Pay)
                   /\ ~IsNumeric(residue(data_file.rows[i].Base_Pay))
      badOvertime(i) == /\ IsStr(data_file.rows[i].Overtime)
                        /\ residueOt(data_file.rows[i].Overtime) # <<>>
                        /\ ~IsNumeric(residueOt(data_file.rows[i].Overtime))
  IN /\ Returned =>
          \A j \in 1..Len(merged) :
            LET r == data_file.rows[merged[j].src]
            IN /\ IsStr(r.Base_Pay) =>
                    merged[j].salary = ParseFloat(residue(r.Base_Pay))
               /\ merged[j].overtime_pay =
                    IF ~IsStr(r.Overtime) \/ residueOt(r.Overtime) = <<>>
                    THEN NaNf
                    ELSE ParseFloat(residueOt(r.Overtime))
     /\ Returned => \A i \in matchedRows : ~badPay(i)
     /\ pc = "parse_error" =>
          \E i \in matchedRows : badPay(i) \/ badOvertime(i)

\* A matched row with Base Pay "$1" and a blank Overtime came back as
\* salary 1 and a null overtime_pay.
C8_Witness ==
  /\ Returned
  /\ Len(merged) = 1
  /\ data_file.rows[1].Base_Pay = <<"$", "1">>
  /\ data_file.rows[1].Overtime = <<" ">>
  /\ merged[1].salary = <<"float", 1, <<>>>>
  /\ merged[1].overtime_pay = NaNf

\* C9: a salary row without a roster match has one record in the missing
\* output with the columns Name, Base Pay, Overtime, first, last and id,
\* Base Pay and Overtime as they were read, first and last the derived
\* keys and id null; currency parsing fails on matched rows only.
C9_MissingKeepsRow ==
  LET hits(i) == {r \in 1..Len(ids) :
                    ids[r].last = df[i].last /\ ids[r].first = df[i].first}
  IN /\ Returned =>
          \A i \in 1..Len(df) :
            hits(i) = {} =>
              /\ Cardinality({j \in 1..Len(missing) : missing[j].src = i}) = 1
              /\ \A j \in 1..Len(missing) :
                   missing[j].src = i =>
                     /\ DOMAIN missing[j] = {"Name", "Base_Pay", "Overtime",
                                             "first", "last", "id", "src"}
                     /\ missing[j].Base_Pay = data_file.rows[i].Base_Pay
                     /\ missing[j].Overtime = data_file.rows[i].Overtime
                     /\ missing[j].first = df[i].first
                     /\ missing[j].last = df[i].last
                     /\ missing[j].id = NA
     /\ pc = "parse_error" =>
          \E i \in 1..Len(df) :
            /\ hits(i) # {}
            /\ \/ /\ IsStr(data_file.rows[i].Base_Pay)
                  /\ ~IsNumeric(RemoveChars(data_file.rows[i].Base_Pay,
                                            {"$", ","}))
               \/ /\ IsStr(data_file.rows[i].Overtime)
                  /\ ~IsNumeric(RemoveChars(data_file.rows[i].Overtime,
                                            {"$", ",", " "}))

\* A run returned although an unmatched salary row has the Base Pay "x",
\* which is in the missing output unparsed.
C9_Witness ==
  /\ Returned
  /\ \E j \in 1..Len(missing) :
       /\ missing[j].Base_Pay = PayBad
       /\ data_file.rows[missing[j].src].Base_Pay = PayBad

\* C10: the writer is invoked at most once and only after both inputs were
\* loaded and match_salary_data returned; a missing input path aborts the
\* run before any file is read; an absent column or a matched Base Pay that
\* is not numeric ends the run in an error without the writer invoked.
C10_FailFast ==
  LET pathMissing == ~id_file.exists \/ ~data_file.exists
      columnMissing == \/ ~(usecols_data \subseteq HeaderSet(data_file))
                       \/ ~(usecols_ids \subseteq HeaderSet(id_file))
      errors == {"usage_error", "file_not_found", "missing_column", "parse_error"}
  IN /\ Len(writes) <= 1
     /\ Len(writes) = 1 =>
          /\ pc = "done"
          /\ reads = 2
          /\ writes[1] = [merged |-> merged, missing |-> missing]
     /\ pc \in errors => writes = <<>>
     /\ pathMissing => reads = 0 /\ pc \in {"cli", "usage_error"}
     /\ columnMissing => pc \in {"cli", "main", "read_ids"} \cup errors
     /\ Returned =>
          \A j \in 1..Len(merged) :
            LET v == data_file.rows[merged[j].src].Base_Pay
            IN IsStr(v) => IsNumeric(RemoveChars(v, {"$", ","}))
     /\ pc = "done" => Len(writes) = 1

\* A run that finished with the writer invoked once.
C10_Witness == pc = "done" /\ Len(writes) = 1 /\ reads = 2

====
